---- MODULE Spec2Model ----
(***************************************************************************)
(* A model of eden/fs/store/FilteredBackingStore.cpp: the facade that sits *)
(* in front of an inner BackingStore and hides the tree entries a Filter   *)
(* says are filtered.                                                      *)
(*                                                                         *)
(* Byte strings (std::string, RootId, ObjectId values, paths) are          *)
(* sequences of integers in 0..255.  Futures are modelled by their state:  *)
(* "pending", or ready with "true"/"false" (a value) or "error" (an        *)
(* exception).                                                             *)
(***************************************************************************)
EXTENDS Integers, Sequences, FiniteSets, TLC

VARIABLES sync, calls

vars == <<sync, calls>>

(***************************************************************************)
(* Bounds of the model.                                                    *)
(***************************************************************************)
\* longest inner root id and longest filter id drawn for the root id codec
MaxIdLen == 2
\* longest batch handed to prefetchBlobs
MaxBatch == 3
\* number of fetches (getRootTree / getTree) that may be in flight together
MaxCalls == 2

(***************************************************************************)
(* Byte strings.                                                           *)
(***************************************************************************)
SeqsUpTo(S, n) == UNION {[1..k -> S] : k \in 0..n}

Take(s, n) == SubSeq(s, 1, n)

Drop(s, n) == SubSeq(s, n + 1, Len(s))

\* the bytes the codec inputs are built from: NUL, a letter, and a byte with
\* the varint continuation bit set
IdBytes == {0, 65, 128}

(***************************************************************************)
(* folly varints (unsigned LEB128, at most kMaxVarintLength64 bytes).      *)
(***************************************************************************)
kMaxVarintLength64 == 10

RECURSIVE encodeVarint(_)
encodeVarint(val) ==
    IF val >= 128
    THEN <<128 + (val % 128)>> \o encodeVarint(val \div 128)
    ELSE <<val>>

RECURSIVE Pow128(_)
Pow128(k) == IF k = 0 THEN 1 ELSE 128 * Pow128(k - 1)

\* the 7 payload bits of the i-th byte of a varint, in place
Payload(b, i) == IF b % 128 = 0 THEN 0 ELSE (b % 128) * Pow128(i - 1)

\* folly::tryDecodeVarint from position i, having read i-1 continuation
\* bytes whose payload is acc: the value and the number of bytes consumed,
\* or the decode error.  The value is a uint64_t; the lengths decoded here
\* stay far below 2^64, so no wrap-around is modelled.
RECURSIVE DecodeVarintFrom(_, _, _)
DecodeVarintFrom(bytes, i, acc) ==
    IF i > Len(bytes)
    THEN [ok |-> FALSE, err |-> "TooFewBytes", value |-> 0, used |-> 0]
    ELSE IF bytes[i] < 128
    THEN [ok |-> TRUE, err |-> "",
          value |-> acc + Payload(bytes[i], i), used |-> i]
    ELSE IF i = kMaxVarintLength64
    THEN [ok |-> FALSE, err |-> "TooManyBytes", value |-> 0, used |-> 0]
    ELSE DecodeVarintFrom(bytes, i + 1, acc + Payload(bytes[i], i))

tryDecodeVarint(bytes) == DecodeVarintFrom(bytes, 1, 0)

(***************************************************************************)
(* The filtered root id codec.                                             *)
(***************************************************************************)
\* FilteredBackingStore::createFilteredRootId
createFilteredRootId(originalRootId, filterId) ==
    encodeVarint(Len(originalRootId)) \o originalRootId \o filterId

\* std::string{const char*}: the bytes up to, not including, the first NUL
RECURSIVE CString(_)
CString(bytes) ==
    IF bytes = <<>> \/ Head(bytes) = 0
    THEN <<>>
    ELSE <<Head(bytes)>> \o CString(Tail(bytes))

\* what lies in memory after a std::string's buffer: its NUL terminator,
\* then bytes that belong to something else
OobFill == {0, 170}

MemoryAfter(k) == {<<0>> \o [i \in 1..k |-> b] : b \in OobFill}

\* parseFilterIdFromRootId: the set of results the call can have.  It is a
\* single result unless the decoded length runs past the end of the root id:
\* then lines 69-70 read outside the buffer, which is undefined behaviour,
\* and the call may crash or return whatever bytes lie there.
parseFilterIdFromRootId(rootId) ==
    LET expectedLength == tryDecodeVarint(rootId)
        rootRange == Drop(rootId, expectedLength.used)
        n == expectedLength.value
    IN  IF ~expectedLength.ok
        THEN {[status |-> "invalid_argument", root |-> <<>>, filterId |-> <<>>]}
        ELSE IF n <= Len(rootRange)
        THEN {[status |-> "ok",
               root |-> Take(rootRange, n),
               filterId |-> CString(Drop(rootRange, n))]}
        ELSE {[status |-> "crash", root |-> <<>>, filterId |-> <<>>]}
             \cup {[status |-> "ok",
                    root |-> Take(rootRange \o mem, n),
                    filterId |-> CString(Drop(rootRange \o mem, n))] :
                   mem \in MemoryAfter(n - Len(rootRange))}

(***************************************************************************)
(* FilteredObjectId (eden/fs/store/filter/FilteredObjectId.h): one tag     *)
(* byte, then for a tree varint(len path), path, varint(len filter),       *)
(* filter, inner object id; for a blob the inner object id alone.          *)
(***************************************************************************)
OBJECT_TYPE_BLOB == 16

OBJECT_TYPE_TREE == 17

\* FilteredObjectId{object}: a blob id
encodeBlob(object) == <<OBJECT_TYPE_BLOB>> \o object

\* FilteredObjectId{path, filterId, object}: a tree id
encodeTree(path, filterId, object) ==
    <<OBJECT_TYPE_TREE>> \o encodeVarint(Len(path)) \o path
        \o encodeVarint(Len(filterId)) \o filterId \o object

BadFoid == [ok |-> FALSE, type |-> 0, path |-> <<>>, filter |-> <<>>,
            object |-> <<>>, value |-> <<>>]

\* FilteredObjectId::fromObjectId and the accessors objectType(), path(),
\* filter(), object(), getValue(); ok is FALSE when the constructor throws
fromObjectId(id) ==
    IF id = <<>> \/ Head(id) \notin {OBJECT_TYPE_BLOB, OBJECT_TYPE_TREE}
    THEN BadFoid
    ELSE IF Head(id) = OBJECT_TYPE_BLOB
    THEN [ok |-> TRUE, type |-> OBJECT_TYPE_BLOB, path |-> <<>>,
          filter |-> <<>>, object |-> Tail(id), value |-> id]
    ELSE LET pl == tryDecodeVarint(Tail(id))
             afterPl == Drop(Tail(id), pl.used)
         IN  IF ~pl.ok \/ pl.value > Len(afterPl)
             THEN BadFoid
             ELSE LET fl == tryDecodeVarint(Drop(afterPl, pl.value))
                      afterFl == Drop(Drop(afterPl, pl.value), fl.used)
                  IN  IF ~fl.ok \/ fl.value > Len(afterFl)
                      THEN BadFoid
                      ELSE [ok |-> TRUE, type |-> OBJECT_TYPE_TREE,
                            path |-> Take(afterPl, pl.value),
                            filter |-> Take(afterFl, fl.value),
                            object |-> Drop(afterFl, fl.value),
                            value |-> id]

(***************************************************************************)
(* Paths: byte strings whose components are separated by '/'.              *)
(***************************************************************************)
Slash == 47

\* RelativePathPiece + PathComponentPiece
JoinPath(treePath, name) ==
    IF treePath = <<>> THEN name ELSE treePath \o <<Slash>> \o name

\* RelativePath::basename(): what follows the last '/'
RECURSIVE basename(_)
basename(path) ==
    IF \E i \in 1..Len(path) : path[i] = Slash
    THEN basename(Tail(path))
    ELSE path

(***************************************************************************)
(* The inner BackingStore: a fixed repository.                             *)
(***************************************************************************)
InnerTrees ==
    (<<1>> :> [names |-> <<(<<97>>), (<<98>>), (<<99>>)>>,
               entries |-> (<<97>> :> [hash |-> <<3>>, type |-> "REGULAR_FILE"])
                        @@ (<<98>> :> [hash |-> <<2>>, type |-> "TREE"])
                        @@ (<<99>> :> [hash |-> <<4>>, type |-> "EXECUTABLE_FILE"])])
    @@
    (<<2>> :> [names |-> <<(<<100>>), (<<101>>)>>,
               entries |-> (<<100>> :> [hash |-> <<5>>, type |-> "SYMLINK"])
                        @@ (<<101>> :> [hash |-> <<6>>, type |-> "TREE"])])
    @@
    (<<6>> :> [names |-> <<(<<102>>)>>,
               entries |-> (<<102>> :> [hash |-> <<7>>, type |-> "REGULAR_FILE"])])

\* inner root id -> the inner id of its root tree
InnerRoots == (<<65>> :> <<1>>) @@ (<<66>> :> <<2>>)

Origins == {"FromNetworkFetch", "FromDiskCache"}

(***************************************************************************)
(* State.  sync is the record of the last synchronous call on the facade;  *)
(* calls holds the fetches in flight.                                      *)
(***************************************************************************)
NoSync ==
    [op |-> "none", in |-> <<>>, futs |-> <<>>, status |-> "none",
     out |-> <<>>, inner |-> <<>>]

\* a fetch slot.  state: "idle", "fetching" (the inner store's future is
\* pending), "filtering" (filter evaluations are pending), "done", "failed"
\* (an exception, thrown or in the returned future), "crashed"
NoCall ==
    [state |-> "idle", op |-> "none", id |-> <<>>, treePath |-> <<>>,
     filterId |-> <<>>, inner |-> <<>>, innerTree |-> <<>>,
     innerOrigin |-> "none", origin |-> "none",
     futs |-> <<>>, order |-> <<>>, error |-> "none",
     tree |-> [id |-> <<>>, entries |-> <<>>], treeId |-> <<>>]

Init ==
    /\ sync = NoSync
    /\ calls = [c \in 1..MaxCalls |-> NoCall]

(***************************************************************************)
(* filterImpl.                                                             *)
(***************************************************************************)
FutStates == {"pending", "true", "false", "error"}

Resolved == {"true", "false", "error"}

\* a Try that holds an exception taken for "not filtered"
EntryRetainedMut(isFiltered) == isFiltered # "true"

\* lines 202-210: an entry is re-added when its Try holds a value and the
\* value is false
EntryRetained(isFiltered) ==
    /\ isFiltered # "error"
    /\ isFiltered = "false"

\* the entry's name in place of its path from the root
FilteredEntryIdMut(relPath, filterId, entry) ==
    IF entry.type = "TREE"
    THEN encodeTree(basename(relPath), filterId, entry.hash)
    ELSE encodeBlob(entry.hash)

\* lines 213-222: the id a retained entry gets
FilteredEntryId(relPath, filterId, entry) ==
    IF entry.type = "TREE"
    THEN encodeTree(relPath, filterId, entry.hash)
    ELSE encodeBlob(entry.hash)

\* lines 201-229: the PathMap built from the collected Trys; isFilteredVec
\* maps each basename of the unfiltered tree to the state of its future
FilterImplCollect(unfilteredTree, treePath, filterId, isFilteredVec) ==
    LET kept == {name \in DOMAIN unfilteredTree.entries :
                    EntryRetained(isFilteredVec[name])}
    IN  [name \in kept |->
            LET relPath == JoinPath(treePath, name)
                entry == unfilteredTree.entries[basename(relPath)]
            IN  [id |-> FilteredEntryId(relPath, filterId, entry),
                 type |-> entry.type]]

\* a collect that is ready as soon as one future is
CollectAllReadyMut(futs) == \E name \in DOMAIN futs : futs[name] # "pending"

\* line 192: collectAll's future is ready when every future it holds is
CollectAllReady(futs) == \A name \in DOMAIN futs : futs[name] # "pending"

\* a root tree id that drops the filter
RootTreeIdMut(filterId, treeId) == encodeTree(<<>>, <<>>, treeId)

\* lines 256-261: the id of the tree getRootTree returns
RootTreeId(filterId, treeId) == encodeTree(<<>>, filterId, treeId)

\* lines 291-292: the id of the tree getTree returns
TreeIdOf(filteredId) == filteredId.value

\* the futures that are ready when filterImpl gets them, in the order the
\* loop of lines 178-190 made them
RECURSIVE ReadyInOrder(_, _)
ReadyInOrder(names, futs) ==
    IF names = <<>> THEN <<>>
    ELSE (IF futs[Head(names)] # "pending" THEN <<Head(names)>> ELSE <<>>)
         \o ReadyInOrder(Tail(names), futs)

\* the continuation of lines 193-230 followed by the one of lines 251-264
\* (getRootTree) or 289-295 (getTree): runs once collectAll is ready
Collected(call, futs, order) ==
    LET unfilteredTree == InnerTrees[call.innerTree]
        pathMap == FilterImplCollect(unfilteredTree, call.treePath,
                                     call.filterId, futs)
    IN  IF call.op = "getRootTree"
        THEN [call EXCEPT !.state = "done", !.futs = futs, !.order = order,
                          !.tree = [id |-> RootTreeId(call.filterId, call.innerTree),
                                    entries |-> pathMap],
                          !.treeId = RootTreeId(call.filterId, call.innerTree)]
        ELSE [call EXCEPT !.state = "done", !.futs = futs, !.order = order,
                          !.tree = [id |-> TreeIdOf(fromObjectId(call.id)),
                                    entries |-> pathMap],
                          !.origin = call.innerOrigin]

\* filterImpl's loop (lines 178-190) has launched the evaluations futs
Launched(call, futs) ==
    LET order == ReadyInOrder(InnerTrees[call.innerTree].names, futs)
    IN  IF CollectAllReady(futs)
        THEN Collected(call, futs, order)
        ELSE [call EXCEPT !.state = "filtering", !.futs = futs, !.order = order]

(***************************************************************************)
(* getRootTree and getTree.                                                *)
(***************************************************************************)
\* slot c holds no fetch that is still in flight
Free(c) == calls[c].state \in {"idle", "done", "failed"}

\* getRootTree, lines 237-243: parse the root id, ask the inner store
GetRootTree(c, rootId) ==
    /\ Free(c)
    /\ \E parsed \in parseFilterIdFromRootId(rootId) :
          calls' = [calls EXCEPT ![c] =
             IF parsed.status = "ok"
             THEN [NoCall EXCEPT !.state = "fetching", !.op = "getRootTree",
                                 !.id = rootId, !.filterId = parsed.filterId,
                                 !.inner = <<parsed.root>>]
             ELSE [NoCall EXCEPT !.state = IF parsed.status = "crash"
                                           THEN "crashed" ELSE "failed",
                                 !.op = "getRootTree", !.id = rootId,
                                 !.error = parsed.status]]
    /\ UNCHANGED sync

\* getTree, lines 281-282: decode the id, ask the inner store
GetTree(c, id) ==
    /\ Free(c)
    /\ LET filteredId == fromObjectId(id)
       IN  calls' = [calls EXCEPT ![c] =
             IF filteredId.ok
             THEN [NoCall EXCEPT !.state = "fetching", !.op = "getTree",
                                 !.id = id, !.inner = <<filteredId.object>>]
             ELSE [NoCall EXCEPT !.state = "failed", !.op = "getTree",
                                 !.id = id, !.error = "MalformedObjectId"]]
    /\ UNCHANGED sync

\* the inner store's getRootTree future completes; lines 244-250
InnerRootTreeReady(c) ==
    /\ calls[c].state = "fetching"
    /\ calls[c].op = "getRootTree"
    /\ LET call == calls[c]
           root == call.inner[1]
       IN  \/ /\ root \in DOMAIN InnerRoots
              /\ \E futs \in [DOMAIN InnerTrees[InnerRoots[root]].entries -> FutStates] :
                    calls' = [calls EXCEPT ![c] =
                       Launched([call EXCEPT !.innerTree = InnerRoots[root]], futs)]
           \/ calls' = [calls EXCEPT ![c] =
                 [call EXCEPT !.state = "failed", !.error = "inner_error"]]
    /\ UNCHANGED sync

\* the inner store's getTree future completes; lines 284-287
InnerTreeReady(c) ==
    /\ calls[c].state = "fetching"
    /\ calls[c].op = "getTree"
    /\ LET call == calls[c]
           filteredId == fromObjectId(call.id)
           object == call.inner[1]
       IN  \/ /\ object \in DOMAIN InnerTrees
              /\ filteredId.type = OBJECT_TYPE_TREE
              /\ \E origin \in Origins :
                 \E futs \in [DOMAIN InnerTrees[object].entries -> FutStates] :
                    calls' = [calls EXCEPT ![c] =
                       Launched([call EXCEPT !.innerTree = object,
                                             !.innerOrigin = origin,
                                             !.treePath = filteredId.path,
                                             !.filterId = filteredId.filter],
                                futs)]
           \/ /\ object \in DOMAIN InnerTrees
              /\ filteredId.type # OBJECT_TYPE_TREE
              \* path() of a blob id throws in the continuation
              /\ calls' = [calls EXCEPT ![c] =
                    [call EXCEPT !.state = "failed", !.error = "WrongVariant"]]
           \/ calls' = [calls EXCEPT ![c] =
                 [call EXCEPT !.state = "failed", !.error = "inner_error"]]
    /\ UNCHANGED sync

\* one pending isPathFiltered future completes, with a value or an
\* exception; the last one to complete runs the continuations
FilterResolved(c, name, result) ==
    /\ calls[c].state = "filtering"
    /\ name \in DOMAIN calls[c].futs
    /\ calls[c].futs[name] = "pending"
    /\ LET call == calls[c]
           futs == [call.futs EXCEPT ![name] = result]
           order == Append(call.order, name)
       IN  calls' = [calls EXCEPT ![c] =
              IF CollectAllReady(futs)
              THEN Collected(call, futs, order)
              ELSE [call EXCEPT !.futs = futs, !.order = order]]
    /\ UNCHANGED sync

\* the names a filter evaluation may be about
EntryNames == UNION {DOMAIN InnerTrees[t].entries : t \in DOMAIN InnerTrees}

FilterA == <<70>>

FilterB == <<71, 0, 72>>

\* root ids handed to getRootTree: well formed ones, one whose filter id
\* holds a NUL, one that is cut short, one whose varint does not end
FetchRootIds ==
    {createFilteredRootId(<<65>>, FilterA),
     createFilteredRootId(<<66>>, <<>>),
     createFilteredRootId(<<65>>, FilterB),
     createFilteredRootId(<<67>>, FilterA),
     <<2, 65>>,
     <<128>>}

\* object ids handed to getTree
FetchTreeIds ==
    {encodeTree(<<>>, FilterA, <<1>>),
     encodeTree(<<98>>, FilterA, <<2>>),
     encodeTree(<<98, Slash, 101>>, FilterB, <<6>>),
     encodeTree(<<98>>, FilterA, <<9>>),
     encodeBlob(<<1>>),
     encodeBlob(<<3>>),
     <<99, 1>>}

NextFetch ==
    \/ \E rootId \in FetchRootIds : GetRootTree(1, rootId)
    \/ \E id \in FetchTreeIds : GetTree(1, id)
    \/ InnerRootTreeReady(1)
    \/ InnerTreeReady(1)
    \/ \E name \in EntryNames, result \in Resolved : FilterResolved(1, name, result)

SpecFetch == Init /\ [][NextFetch]_vars

\* the requests of the fetches that run side by side
ConcRootIds == {createFilteredRootId(<<66>>, FilterA)}

ConcTreeIds == {encodeTree(<<98, Slash, 101>>, FilterB, <<6>>)}

NextConc ==
    \E c \in 1..MaxCalls :
        \/ \E rootId \in ConcRootIds : GetRootTree(c, rootId)
        \/ \E id \in ConcTreeIds : GetTree(c, id)
        \/ InnerRootTreeReady(c)
        \/ InnerTreeReady(c)
        \/ \E name \in EntryNames, result \in Resolved : FilterResolved(c, name, result)

SpecConc == Init /\ [][NextConc]_vars

(***************************************************************************)
(* The synchronous calls: the root id codec, importManifestForRoot,        *)
(* compareObjectsById, prefetchBlobs.  Each leaves in sync what it was     *)
(* given, how it ended, what it returned and the calls it made on the      *)
(* inner store.                                                            *)
(***************************************************************************)
\* the caller's thread is not inside a synchronous call
Idle == sync.op = "none"

\* the caller takes the result of the synchronous call it made
Return ==
    /\ ~Idle
    /\ sync' = NoSync
    /\ UNCHANGED calls

InnerCall(fn, args, res) == [fn |-> fn, args |-> args, res |-> res]

\* the inner store's parseRootId: a hex parser, which reads 'a' as 'A'
InnerParseRootId(rootId) ==
    [i \in 1..Len(rootId) |-> IF rootId[i] = 97 THEN 65 ELSE rootId[i]]

IdStrings == SeqsUpTo(IdBytes, MaxIdLen)

\* the root ids the codec is given: those createFilteredRootId makes, the
\* same cut short, and varints that do not end or are too long
RootIdInputs ==
    {createFilteredRootId(inner, filterId) : inner \in IdStrings, filterId \in IdStrings}
    \cup UNION {{Take(createFilteredRootId(inner, <<>>), k) : k \in 0..Len(inner)} :
                   inner \in IdStrings}
    \cup {<<128>>, <<128, 128>>, [i \in 1..11 |-> 128], <<2, 97>>, <<1, 97, 70>>}

CreateFilteredRootId(originalRootId, filterId) ==
    /\ Idle
    /\ sync' = [NoSync EXCEPT !.op = "createFilteredRootId",
                              !.in = <<originalRootId, filterId>>,
                              !.status = "ok",
                              !.out = <<createFilteredRootId(originalRootId, filterId)>>]
    /\ UNCHANGED calls

ParseFilterIdFromRootId(rootId) ==
    /\ Idle
    /\ \E parsed \in parseFilterIdFromRootId(rootId) :
          sync' = [NoSync EXCEPT !.op = "parseFilterIdFromRootId",
                                 !.in = <<rootId>>,
                                 !.status = parsed.status,
                                 !.out = IF parsed.status = "ok"
                                         THEN <<parsed.root, parsed.filterId>>
                                         ELSE <<>>]
    /\ UNCHANGED calls

\* parseRootId, lines 348-356
ParseRootId(rootId) ==
    /\ Idle
    /\ \E parsed \in parseFilterIdFromRootId(rootId) :
          sync' = IF parsed.status = "ok"
                  THEN LET parsedRootId == InnerParseRootId(parsed.root)
                       IN  [NoSync EXCEPT
                              !.op = "parseRootId", !.in = <<rootId>>,
                              !.status = "ok",
                              !.inner = <<InnerCall("parseRootId", <<parsed.root>>, "ok")>>,
                              !.out = <<createFilteredRootId(parsedRootId,
                                                             parsed.filterId)>>]
                  ELSE [NoSync EXCEPT !.op = "parseRootId", !.in = <<rootId>>,
                                      !.status = parsed.status]
    /\ UNCHANGED calls

\* renderRootId, lines 358-362
RenderRootId(rootId) ==
    /\ Idle
    /\ \E parsed \in parseFilterIdFromRootId(rootId) :
          sync' = IF parsed.status = "ok"
                  THEN [NoSync EXCEPT
                          !.op = "renderRootId", !.in = <<rootId>>,
                          !.status = "ok",
                          !.out = <<createFilteredRootId(parsed.root,
                                                         parsed.filterId)>>]
                  ELSE [NoSync EXCEPT !.op = "renderRootId", !.in = <<rootId>>,
                                      !.status = parsed.status]
    /\ UNCHANGED calls

Manifest == <<77>>

\* importManifestForRoot, lines 337-346
ImportManifestForRoot(rootId, manifest) ==
    /\ Idle
    /\ \E parsed \in parseFilterIdFromRootId(rootId) :
          sync' = IF parsed.status = "ok"
                  THEN [NoSync EXCEPT
                          !.op = "importManifestForRoot", !.in = <<rootId, manifest>>,
                          !.status = "ok",
                          !.inner = <<InnerCall("importManifestForRoot",
                                                <<parsed.root, manifest>>, "ok")>>]
                  ELSE [NoSync EXCEPT !.op = "importManifestForRoot",
                                      !.in = <<rootId, manifest>>,
                                      !.status = parsed.status]
    /\ UNCHANGED calls

(***************************************************************************)
(* compareObjectsById.                                                     *)
(***************************************************************************)
ObjectComparison == {"Unknown", "Identical", "Different"}

\* the comparison of line 50 inverted
PathAffectedMut(isFilteredOne, isFilteredTwo) == isFilteredOne = isFilteredTwo

\* lines 48-57: both results are values; is the path in only one filter?

PathAffected(isFilteredOne, isFilteredTwo) == isFilteredOne # isFilteredTwo

\* a collectAll that counts a single ready future as enough
pathAffectedByFilterChangeMut(futOne, futTwo) ==
    IF futOne = "pending" /\ futTwo = "pending" THEN "pending"
    ELSE IF futOne = "error" \/ futTwo = "error" THEN "error"
    ELSE IF PathAffected(futOne, futTwo) THEN "true" ELSE "false"

\* pathAffectedByFilterChange, lines 29-59: the state of the future it
\* returns, from the states of the two isPathFiltered futures
pathAffectedByFilterChange(futOne, futTwo) ==
    IF futOne = "pending" \/ futTwo = "pending" THEN "pending"
    ELSE IF futOne = "error" \/ futTwo = "error" THEN "error"
    ELSE IF PathAffected(futOne, futTwo) THEN "true" ELSE "false"

\* the inner store's answer returned as it is
UnaffectedResultMut(res) == res

\* lines 146-152: what is returned for the inner store's answer res when the
\* path is not affected by the filter change
UnaffectedResult(res) == IF res = "Identical" THEN "Unknown" ELSE res

\* the answers the inner store's compareObjectsById may give
InnerCompare(objectOne, objectTwo) ==
    IF objectOne = objectTwo THEN {"Identical"} ELSE ObjectComparison

\* lines 128-159: the filters differ.  futOne and futTwo are the states of
\* the futures the filter returned; the inner store is asked only when the
\* path is unaffected.
CompareFilterChange(base, filteredOne, filteredTwo, futOne, futTwo) ==
    LET pathAffected == pathAffectedByFilterChange(futOne, futTwo)
        asked == [base EXCEPT !.futs = <<futOne, futTwo>>]
    IN  IF pathAffected = "pending"
        THEN {[asked EXCEPT !.status = "Unknown"]}
        ELSE IF pathAffected = "error"
        THEN {[asked EXCEPT !.status = "runtime_error"]}
        ELSE IF pathAffected = "true"
        THEN {[asked EXCEPT !.status = "Different"]}
        ELSE {[asked EXCEPT
                 !.status = UnaffectedResult(res),
                 !.inner = <<InnerCall("compareObjectsById",
                                       <<filteredOne.object, filteredTwo.object>>,
                                       res)>>] :
              res \in InnerCompare(filteredOne.object, filteredTwo.object)}

\* compareObjectsById, lines 80-165: the results the call can have, over
\* what the filter and the inner store may answer
compareObjectsById(one, two) ==
    LET filteredOne == fromObjectId(one)
        filteredTwo == fromObjectId(two)
        typeOne == filteredOne.type
        typeTwo == filteredTwo.type
        base == [NoSync EXCEPT !.op = "compareObjectsById", !.in = <<one, two>>]
        delegated ==
            {[base EXCEPT
                !.status = res,
                !.inner = <<InnerCall("compareObjectsById",
                                      <<filteredOne.object, filteredTwo.object>>,
                                      res)>>] :
             res \in InnerCompare(filteredOne.object, filteredTwo.object)}
    IN  IF one = two
        THEN {[base EXCEPT !.status = "Identical"]}
        ELSE IF ~filteredOne.ok \/ ~filteredTwo.ok
        THEN {[base EXCEPT !.status = "MalformedObjectId"]}
        ELSE IF typeOne # typeTwo
        THEN {[base EXCEPT !.status = "invalid_argument"]}
        ELSE IF typeOne = OBJECT_TYPE_BLOB
        THEN delegated
        ELSE IF typeOne = OBJECT_TYPE_TREE
        THEN IF filteredOne.filter = filteredTwo.filter
             THEN delegated
             ELSE UNION {CompareFilterChange(base, filteredOne, filteredTwo,
                                             futOne, futTwo) :
                         futOne \in FutStates, futTwo \in FutStates}
        ELSE {[base EXCEPT !.status = "runtime_error"]}

\* the ids compareObjectsById is given
CompareIds ==
    {encodeTree(path, filterId, object) :
        path \in {<<>>, <<98>>}, filterId \in {<<>>, FilterA, FilterB},
        object \in {<<1>>, <<2>>}}
    \cup {encodeBlob(<<3>>), encodeBlob(<<4>>), <<99, 1>>}

CompareObjectsById(one, two) ==
    /\ Idle
    /\ sync' \in compareObjectsById(one, two)
    /\ UNCHANGED calls

(***************************************************************************)
(* prefetchBlobs.                                                          *)
(***************************************************************************)
\* lines 318-321: std::transform decodes each id and writes the inner id
\* through nonFilteredIds.begin(), the begin of an empty vector.  A decode
\* that fails throws; each write is outside the vector's storage, which is
\* undefined behaviour: the call may crash there, and if it does not, the
\* vector still has size 0.
RECURSIVE prefetchBlobs(_)
prefetchBlobs(ids) ==
    IF ids = <<>>
    THEN {[status |-> "ok", forwarded |-> <<>>]}
    ELSE IF ~fromObjectId(Head(ids)).ok
    THEN {[status |-> "MalformedObjectId", forwarded |-> <<>>]}
    ELSE {[status |-> "crash", forwarded |-> <<>>]} \cup prefetchBlobs(Tail(ids))

PrefetchIds == {encodeBlob(<<3>>), encodeBlob(<<4>>), <<99, 1>>}

\* prefetchBlobs, lines 315-323
PrefetchBlobs(ids) ==
    /\ Idle
    /\ \E outcome \in prefetchBlobs(ids) :
          sync' = [NoSync EXCEPT
                     !.op = "prefetchBlobs", !.in = ids,
                     !.status = outcome.status,
                     !.inner = IF outcome.status = "ok"
                               THEN <<InnerCall("prefetchBlobs",
                                                outcome.forwarded, "ok")>>
                               ELSE <<>>]
    /\ UNCHANGED calls

Next ==
    \/ Idle /\ \E inner \in IdStrings, filterId \in IdStrings :
                  CreateFilteredRootId(inner, filterId)
    \/ Idle /\ \E rootId \in RootIdInputs : ParseFilterIdFromRootId(rootId)
    \/ Idle /\ \E rootId \in RootIdInputs : ParseRootId(rootId)
    \/ Idle /\ \E rootId \in RootIdInputs : RenderRootId(rootId)
    \/ Idle /\ \E rootId \in RootIdInputs : ImportManifestForRoot(rootId, Manifest)
    \/ Idle /\ \E rootId \in FetchRootIds : GetRootTree(1, rootId)
    \/ Idle /\ \E one \in CompareIds, two \in CompareIds : CompareObjectsById(one, two)
    \/ Idle /\ \E ids \in SeqsUpTo(PrefetchIds, MaxBatch) : PrefetchBlobs(ids)
    \/ Return

Spec == Init /\ [][Next]_vars

(***************************************************************************)
(* Properties of the synchronous calls.                                    *)
(***************************************************************************)
\* the last call compared two byte-different tree ids whose filters differ
ComparedAcrossFilters ==
    /\ sync.op = "compareObjectsById"
    /\ sync.in[1] # sync.in[2]
    /\ fromObjectId(sync.in[1]).ok
    /\ fromObjectId(sync.in[2]).ok
    /\ fromObjectId(sync.in[1]).type = OBJECT_TYPE_TREE
    /\ fromObjectId(sync.in[2]).type = OBJECT_TYPE_TREE
    /\ fromObjectId(sync.in[1]).filter # fromObjectId(sync.in[2]).filter

Values == {"true", "false"}

\* C3: comparing two byte-different tree ids with different filters, when
\* both filter evaluations are ready with values and the values disagree,
\* returns Different and does not ask the inner store.
C3_DisagreeIsDifferent ==
    (/\ ComparedAcrossFilters
     /\ sync.futs[1] \in Values
     /\ sync.futs[2] \in Values
     /\ sync.futs[1] # sync.futs[2])
    => /\ sync.status = "Different"
       /\ sync.inner = <<>>

C3_Witness ==
    /\ ComparedAcrossFilters
    /\ sync.futs = <<"true", "false">>
    /\ fromObjectId(sync.in[1]).object = fromObjectId(sync.in[2]).object
    /\ sync.status = "Different"

\* C4: comparing two byte-different tree ids with different filters, when
\* both filter evaluations are ready with the same value, asks the inner
\* store to compare the two inner ids once and returns Unknown if it answers
\* Identical, and its answer otherwise; the call never returns Identical.
C4_AgreeDowngrades ==
    (/\ ComparedAcrossFilters
     /\ sync.futs[1] \in Values
     /\ sync.futs[1] = sync.futs[2])
    => /\ Len(sync.inner) = 1
       /\ sync.inner[1].fn = "compareObjectsById"
       /\ sync.inner[1].args = <<fromObjectId(sync.in[1]).object,
                                 fromObjectId(sync.in[2]).object>>
       /\ sync.status = IF sync.inner[1].res = "Identical"
                        THEN "Unknown" ELSE sync.inner[1].res
       /\ sync.status # "Identical"

C4_Witness ==
    /\ ComparedAcrossFilters
    /\ sync.futs = <<"false", "false">>
    /\ sync.inner # <<>>
    /\ sync.inner[1].res = "Identical"
    /\ sync.status = "Unknown"

\* C5: comparing two byte-different tree ids with different filters, when
\* at least one of the two filter evaluations is still pending at the call,
\* returns Unknown in that call and does not ask the inner store.
C5_PendingIsUnknown ==
    (/\ ComparedAcrossFilters
     /\ \E i \in 1..2 : sync.futs[i] = "pending")
    => /\ sync.status = "Unknown"
       /\ sync.inner = <<>>

C5_Witness ==
    /\ ComparedAcrossFilters
    /\ sync.futs = <<"true", "pending">>
    /\ sync.status = "Unknown"

\* C6: parseFilterIdFromRootId of createFilteredRootId(inner, filterId)
\* returns (inner, filterId), for every inner root id and filter id.
C6_RootIdRoundTrip ==
    sync.op = "parseFilterIdFromRootId" =>
        \A inner \in IdStrings, filterId \in IdStrings :
            sync.in[1] = createFilteredRootId(inner, filterId) =>
                /\ sync.status = "ok"
                /\ sync.out = <<inner, filterId>>

\* the varint of a root id cannot be decoded, or the length it gives is more
\* than the bytes that follow it
MalformedRootId(rootId) ==
    LET d == tryDecodeVarint(rootId)
    IN  ~d.ok \/ d.value > Len(rootId) - d.used

\* C7: prefetchBlobs hands the inner store one batch holding, for every id
\* given and in the same order, the inner id decoded from it.
C7_PrefetchForwardsAll ==
    (/\ sync.op = "prefetchBlobs"
     /\ \A i \in 1..Len(sync.in) : fromObjectId(sync.in[i]).ok)
    => /\ sync.status = "ok"
       /\ Len(sync.inner) = 1
       /\ sync.inner[1].fn = "prefetchBlobs"
       /\ sync.inner[1].args = [i \in 1..Len(sync.in) |-> fromObjectId(sync.in[i]).object]

\* C8: a root id whose varint cannot be decoded, or that is cut short, makes
\* parseFilterIdFromRootId fail without a result, and parseRootId,
\* renderRootId, importManifestForRoot and getRootTree fail without calling
\* the inner store.
C8_MalformedRootIdFails ==
    /\ (/\ sync.op \in {"parseFilterIdFromRootId", "parseRootId", "renderRootId",
                        "importManifestForRoot"}
        /\ MalformedRootId(sync.in[1]))
       => /\ sync.status = "invalid_argument"
          /\ sync.out = <<>>
          /\ sync.inner = <<>>
    /\ \A c \in 1..MaxCalls :
          (/\ calls[c].op = "getRootTree"
           /\ MalformedRootId(calls[c].id))
          => /\ calls[c].state = "failed"
             /\ calls[c].error = "invalid_argument"
             /\ calls[c].inner = <<>>

(***************************************************************************)
(* Properties of the fetches.                                              *)
(***************************************************************************)
Done(c) == calls[c].state = "done"

InnerEntries(c) == InnerTrees[calls[c].innerTree].entries

\* C1: the tree a fetch returns holds exactly the entries whose filter
\* evaluation completed with the value false; an entry whose evaluation
\* returned true or failed is absent, and a failed evaluation does not fail
\* the fetch: once every evaluation has completed the fetch is done.
C1_EntrySet ==
    \A c \in 1..MaxCalls :
        /\ Done(c) =>
              DOMAIN calls[c].tree.entries =
                 {name \in DOMAIN InnerEntries(c) : calls[c].futs[name] = "false"}
        /\ (/\ calls[c].innerTree # <<>>
            /\ \A name \in DOMAIN calls[c].futs : calls[c].futs[name] \in Resolved)
           => Done(c)

C1_Witness ==
    /\ Done(1)
    /\ calls[1].innerTree = <<1>>
    /\ calls[1].futs[<<97>>] = "error"
    /\ calls[1].futs[<<98>>] = "true"
    /\ calls[1].futs[<<99>>] = "false"
    /\ DOMAIN calls[1].tree.entries = {<<99>>}

\* C2: in a returned tree every TREE entry's id decodes to the parent's
\* path joined with the entry's name, the parent's filter id and the inner
\* store's id of the entry; every other entry's id is the BLOB tag followed
\* by the inner store's id and nothing else; the entry's kind is the inner
\* entry's kind.
C2_ChildIds ==
    \A c \in 1..MaxCalls :
        Done(c) =>
            LET parent == fromObjectId(calls[c].tree.id)
            IN  \A name \in DOMAIN calls[c].tree.entries :
                    LET entry == calls[c].tree.entries[name]
                        innerEntry == InnerEntries(c)[name]
                        child == fromObjectId(entry.id)
                    IN  /\ entry.type = innerEntry.type
                        /\ child.ok
                        /\ child.object = innerEntry.hash
                        /\ IF innerEntry.type = "TREE"
                           THEN /\ child.type = OBJECT_TYPE_TREE
                                /\ child.path = JoinPath(parent.path, name)
                                /\ child.filter = parent.filter
                           ELSE /\ child.type = OBJECT_TYPE_BLOB
                                /\ entry.id = <<OBJECT_TYPE_BLOB>> \o innerEntry.hash

C2_Witness ==
    /\ Done(1)
    /\ calls[1].op = "getTree"
    /\ calls[1].treePath = <<98>>
    /\ calls[1].filterId = FilterA
    /\ DOMAIN calls[1].tree.entries = {<<100>>, <<101>>}

\* C9: getRootTree returns a tree whose id, and a treeId, equal
\* encodeTree(empty path, the filter id parsed from the root id, the inner
\* store's tree id of the parsed inner root); getTree returns a tree whose id
\* is the id it was asked for, with the origin the inner store reported.
C9_TreeIdNamesRequest ==
    \A c \in 1..MaxCalls :
        Done(c) =>
            IF calls[c].op = "getRootTree"
            THEN /\ calls[c].tree.id = calls[c].treeId
                 /\ \E parsed \in parseFilterIdFromRootId(calls[c].id) :
                       /\ parsed.status = "ok"
                       /\ parsed.root \in DOMAIN InnerRoots
                       /\ calls[c].treeId =
                             encodeTree(<<>>, parsed.filterId, InnerRoots[parsed.root])
            ELSE /\ calls[c].tree.id = calls[c].id
                 /\ fromObjectId(calls[c].id).type = OBJECT_TYPE_TREE
                 /\ calls[c].origin = calls[c].innerOrigin
                 /\ calls[c].origin \in Origins

C9_Witness ==
    /\ Done(1)
    /\ calls[1].op = "getRootTree"
    /\ calls[1].id = createFilteredRootId(<<65>>, FilterA)
    /\ calls[1].treeId = encodeTree(<<>>, FilterA, <<1>>)

\* C10: a fetch that is done launched one evaluation per entry of the inner
\* tree and every one of them has completed; and two fetches of the same
\* request whose evaluations gave the same results return the same tree,
\* whatever the order in which the evaluations completed.
C10_OrderIndependent ==
    \A c \in 1..MaxCalls :
        Done(c) =>
            /\ DOMAIN calls[c].futs = DOMAIN InnerEntries(c)
            /\ \A name \in DOMAIN calls[c].futs : calls[c].futs[name] \in Resolved
            /\ Len(calls[c].order) = Cardinality(DOMAIN InnerEntries(c))
            /\ \A d \in 1..MaxCalls :
                  (/\ Done(d)
                   /\ calls[d].op = calls[c].op
                   /\ calls[d].id = calls[c].id
                   /\ calls[d].innerTree = calls[c].innerTree
                   /\ calls[d].futs = calls[c].futs)
                  => calls[d].tree = calls[c].tree

C10_Witness ==
    /\ Done(1)
    /\ Done(2)
    /\ calls[1].op = calls[2].op
    /\ calls[1].id = calls[2].id
    /\ calls[1].futs = calls[2].futs
    /\ calls[1].order = <<(<<100>>), (<<101>>)>>
    /\ calls[2].order = <<(<<101>>), (<<100>>)>>
    /\ calls[1].futs[<<100>>] = "error"
    /\ calls[1].futs[<<101>>] = "false"
    /\ calls[1].tree = calls[2].tree

====
